---- MODULE Spec2Model ----
(***************************************************************************)
(* The WAV fixture generators of dekzer-oss/wav-decoder:                   *)
(*   scripts/gen-wav-fixtures.py        sine, sweep and exotic fixtures    *)
(*   scripts/generate_wav_fixtures.py   an older copy of the same script   *)
(*   scripts/generate_fixtures.py       the first sine-only generator      *)
(*   scripts/gen_evil_wav_fixtures.py   the malformed ("evil") fixtures    *)
(*                                                                         *)
(* A file is modelled as the sequence of segments the script writes (a     *)
(* struct.pack result, a literal byte string, the samples of the frame     *)
(* loop); a segment keeps the fields packed into it and its byte length.   *)
(* Samples are fixed-point: a float sample s is the integer s * 1000.      *)
(***************************************************************************)
EXTENDS Integers, Sequences, FiniteSets, TLC

VARIABLES
    script,         \* the script that runs
    sine_configs,   \* FIXTURE_CONFIGS (TEST_CONFIGS in generate_fixtures.py)
    sweep_configs,  \* SWEEP_CONFIGS
    phase,          \* "sine", "sweep", "exotic", "evil", "done", "crashed"
    idx,            \* the position in the phase's list, from 1
    step,           \* "prepare", "open", "frames": the position in one entry
    plan,           \* the locals computed for the current entry
    cur,            \* the name of the file that is open, "" when none is
    files,          \* the output directory: file name -> [segs, state]
    error,          \* the exception that ended the run, "none" when none did
    call,           \* a single call of a sample encoder: its function and input
    ret,            \* and its result
    frame_index,    \* the frame the frame loop is at
    channel         \* the channel the channel loop is at

vars == <<script, sine_configs, sweep_configs, phase, idx, step, plan, cur,
          files, error, call, ret, frame_index, channel>>

mainVars == <<script, sine_configs, sweep_configs, phase, idx, step, plan,
              cur, files, error, frame_index, channel>>

loopVars == <<frame_index, channel>>

callVars == <<call, ret>>

(***************************************************************************)
(* Module constants of the scripts.                                        *)
(***************************************************************************)
DURATION_SECONDS == 1
SAMPLE_RATE == 44100
\* AMPLITUDE = 0.8, in thousandths
AMPLITUDE == 800
\* the denominator of the fixed-point samples
SampleDen == 10 ^ 3

GenWav == "gen-wav-fixtures.py"
GenerateWav == "generate_wav_fixtures.py"
GenerateFixtures == "generate_fixtures.py"
GenEvil == "gen_evil_wav_fixtures.py"

Cfg(c, b, n, e) == [codec |-> c, bit_depth |-> b, channels |-> n, endian |-> e]

FIXTURE_CONFIGS ==
    << Cfg("pcm", 8, 1, "little"),   Cfg("pcm", 16, 2, "little"),
       Cfg("pcm", 24, 1, "little"),  Cfg("pcm", 32, 2, "little"),
       Cfg("pcm", 16, 1, "big"),     Cfg("pcm", 24, 2, "big"),
       Cfg("float", 32, 1, "little"), Cfg("float", 64, 2, "little"),
       Cfg("float", 32, 2, "big"),
       Cfg("alaw", 8, 1, "little"),  Cfg("ulaw", 8, 2, "little"),
       Cfg("pcm", 24, 8, "little"),  Cfg("float", 32, 8, "little") >>

SWEEP_CONFIGS ==
    << Cfg("pcm", 16, 2, "little"),  Cfg("pcm", 24, 8, "little"),
       Cfg("float", 32, 2, "little"), Cfg("float", 32, 8, "little") >>

TEST_CONFIGS ==
    << Cfg("pcm", 8, 1, "little"),   Cfg("pcm", 16, 2, "little"),
       Cfg("pcm", 24, 1, "little"),  Cfg("pcm", 32, 2, "little"),
       Cfg("pcm", 16, 1, "big"),     Cfg("pcm", 24, 2, "big"),
       Cfg("float", 32, 1, "little"), Cfg("float", 64, 2, "little"),
       Cfg("float", 32, 2, "big"),
       Cfg("alaw", 8, 1, "little"),  Cfg("ulaw", 8, 2, "little") >>

(***************************************************************************)
(* Python's integer operations.                                            *)
(***************************************************************************)
Pow2(n) == 2 ^ n

\* x >> n, an arithmetic shift (floor) as on Python's unbounded integers
Shr(x, n) == x \div Pow2(n)

\* x << n
Shl(x, n) == x * Pow2(n)

Abs(x) == IF x < 0 THEN -x ELSE x

Min(a, b) == IF a < b THEN a ELSE b

Max(a, b) == IF a > b THEN a ELSE b

\* int(n / d) for d > 0: truncation toward zero
Trunc(n, d) == IF n >= 0 THEN n \div d ELSE -((-n) \div d)

Bit(x, i) == (x \div Pow2(i)) % 2

RECURSIVE XorBits(_, _, _)
XorBits(a, b, i) ==
    IF i < 0 THEN 0
    ELSE (IF Bit(a, i) # Bit(b, i) THEN Pow2(i) ELSE 0) + XorBits(a, b, i - 1)

\* a ^ b on bytes
Xor8(a, b) == XorBits(a, b, 7)

RECURSIVE OrBits(_, _, _)
OrBits(a, b, i) ==
    IF i < 0 THEN 0
    ELSE (IF Bit(a, i) = 1 \/ Bit(b, i) = 1 THEN Pow2(i) ELSE 0)
         + OrBits(a, b, i - 1)

\* a | b on bytes
Or8(a, b) == OrBits(a, b, 7)

(***************************************************************************)
(* G.711 encoders.                                                         *)
(***************************************************************************)
alaw_boundaries == <<32, 64, 128, 256, 512, 1024, 2048, 4096>>

\* the for/break loop over enumerate(boundaries): the first index whose
\* boundary exceeds the value, and the preset 7 when the loop never breaks
alaw_exponent(pcm_value) ==
    LET hits == {i \in 1..Len(alaw_boundaries) : pcm_value < alaw_boundaries[i]}
    IN  IF hits = {} THEN 7
        ELSE (CHOOSE i \in hits : \A j \in hits : i <= j) - 1

\* gen-wav-fixtures.py convert_linear_to_alaw; generate_wav_fixtures.py
\* linear_to_alaw is the same code
convert_linear_to_alaw(pcm_in) ==
    LET clamped == Max(-32768, Min(pcm_in, 32767))
        sign == IF clamped < 0 THEN 0 ELSE 128
        pcm_value == Abs(clamped)
        exponent == IF pcm_value < 32 THEN 0 ELSE alaw_exponent(pcm_value)
        shift == IF exponent > 1 THEN exponent + 3 ELSE 4
        mantissa == IF pcm_value < 32 THEN Shr(pcm_value, 1)
                    ELSE Shr(pcm_value, shift) % 16
        alaw_byte == Or8(Shl(exponent, 4), mantissa)
    IN  Or8(Xor8(alaw_byte, 85), sign)

\* the for loop over range(7, -1, -1): the largest exp with
\* pcm_value >= 1 << (exp + 5), and the preset 7 when the loop never breaks
ulaw_exponent(pcm_value) ==
    LET hits == {e \in 0..7 : pcm_value >= Shl(1, e + 5)}
    IN  IF hits = {} THEN 7
        ELSE CHOOSE e \in hits : \A f \in hits : f <= e

\* gen-wav-fixtures.py convert_linear_to_ulaw; generate_wav_fixtures.py
\* linear_to_ulaw is the same code
convert_linear_to_ulaw(pcm_in) ==
    LET BIAS == 132
        MAX_VALUE == 32635
        clamped == Max(-32767, Min(pcm_in, 32767))
        sign == IF clamped < 0 THEN 255 ELSE 127
        pcm_value == Min(Abs(clamped), MAX_VALUE) + BIAS
        exponent == ulaw_exponent(pcm_value)
        mantissa == Shr(pcm_value, exponent + 1) % 16
        compressed == Or8(Shl(exponent, 4), mantissa)
    IN  Xor8(compressed, sign)

\* generate_fixtures.py linear_to_alaw
gf_linear_to_alaw(pcm_in) ==
    LET shifted == Shr(pcm_in, 3)
        mask == IF shifted >= 0 THEN 213 ELSE 85
        pcm_val == IF shifted >= 0 THEN shifted ELSE -shifted - 1
        val == IF pcm_val < 32 THEN pcm_val
               ELSE IF pcm_val < 64 THEN Shr(pcm_val - 32, 1) + 32
               ELSE IF pcm_val < 128 THEN Shr(pcm_val - 64, 2) + 48
               ELSE IF pcm_val < 256 THEN Shr(pcm_val - 128, 3) + 64
               ELSE IF pcm_val < 512 THEN Shr(pcm_val - 256, 4) + 80
               ELSE IF pcm_val < 1024 THEN Shr(pcm_val - 512, 5) + 96
               ELSE IF pcm_val < 2048 THEN Shr(pcm_val - 1024, 6) + 112
               ELSE 127
    IN  Xor8(val, mask)

\* generate_fixtures.py linear_to_ulaw
gf_linear_to_ulaw(pcm_in) ==
    LET BIAS == 132
        MAX == 32635
        pcm_val == IF pcm_in > MAX THEN MAX
                   ELSE IF pcm_in < -MAX THEN -MAX ELSE pcm_in
        val == IF pcm_val >= 0 THEN BIAS + ((pcm_val * 32) \div MAX)
               ELSE BIAS - ((Abs(pcm_val) * 32) \div MAX)
    IN  255 - val

(***************************************************************************)
(* Segments: what one struct.pack, one byte literal or the frame loop puts *)
(* into a file.  Every segment has the same fields; the ones a kind does   *)
(* not use are "", 0 or NoFields.                                          *)
(***************************************************************************)
NoFields == [format_tag |-> -1, channels |-> -1, sample_rate |-> -1,
             byte_rate |-> -1, block_align |-> -1, bits |-> -1]

Seg(kind, tag, value, order, len, fields) ==
    [kind |-> kind, tag |-> tag, value |-> value, order |-> order,
     len |-> len, fields |-> fields]

\* the container tag, b'RIFF' or b'RIFX'
TagSeg(tag) == Seg("tag", tag, 0, "", 4, NoFields)

\* the RIFF size field, an 'I' packed in byte order `order`
RiffSizeSeg(value, order) == Seg("riffsize", "", value, order, 4, NoFields)

\* the form type, b'WAVE'
FormSeg(tag) == Seg("form", tag, 0, "", 4, NoFields)

\* a chunk id
ChunkIdSeg(id) == Seg("chunkid", id, 0, "", 4, NoFields)

\* a chunk size field
ChunkSizeSeg(value, order) == Seg("chunksize", "", value, order, 4, NoFields)

\* a plain 'I' in a payload (the frame count of a fact chunk)
U32Seg(value, order) == Seg("u32", "", value, order, 4, NoFields)

\* `len` literal bytes
BytesSeg(len, what) == Seg("bytes", what, 0, "", len, NoFields)

\* the body of a fmt chunk: 'HHIIHH' (16 bytes) or 'HHIIHHH' with a trailing
\* zero (18 bytes)
FmtSeg(format_tag, channels, sample_rate, byte_rate, block_align, bits, order, len) ==
    Seg("fmt", "", 0, order, len,
        [format_tag |-> format_tag, channels |-> channels,
         sample_rate |-> sample_rate, byte_rate |-> byte_rate,
         block_align |-> block_align, bits |-> bits])

\* the samples of `frames` frames of `channels` channels, `width` bytes each,
\* in byte order `order`; `what` names the signal
SamplesSeg(frames, channels, width, order, what) ==
    Seg("samples", what, frames, order, frames * channels * width,
        [NoFields EXCEPT !.channels = channels, !.bits = width * 8])

RECURSIVE SegsLen(_)
SegsLen(segs) ==
    IF segs = <<>> THEN 0 ELSE Head(segs).len + SegsLen(Tail(segs))

\* struct.pack(f'{order}4sI4s', tag, size, form)
PackRiff(tag, size, form, order) ==
    <<TagSeg(tag), RiffSizeSeg(size, order), FormSeg(form)>>

\* struct.pack(f'{order}4sI', id, size)
PackChunkHeader(id, size, order) ==
    <<ChunkIdSeg(id), ChunkSizeSeg(size, order)>>

(***************************************************************************)
(* One sample: float -> bytes.  A result is [status, width, value]: the    *)
(* exception raised ("ok" when none), the bytes written, the number packed.*)
(***************************************************************************)
Written(width, value) == [status |-> "ok", width |-> width, value |-> value]

Raised(exc) == [status |-> exc, width |-> 0, value |-> 0]

\* 2 ** (bit_depth - 1) - 1, for bit_depth in 2..32
max_value(bit_depth) == (Pow2(bit_depth - 2) - 1) * 2 + 1

\* int(sample_float * m) with sample_float = sample / SampleDen
ScaleTrunc(sample, m) ==
    LET a == Abs(sample)
        v == a * (m \div SampleDen) + (a * (m % SampleDen)) \div SampleDen
    IN  IF sample < 0 THEN -v ELSE v

\* struct.pack of an integer format: 'B', 'h', 'i'
pack_int(format_char, value) ==
    LET width == CASE format_char = "B" -> 1
                   [] format_char = "h" -> 2
                   [] format_char = "i" -> 4
        lo == CASE format_char = "B" -> 0
                [] format_char = "h" -> -32768
                [] format_char = "i" -> -2147483647 - 1
        hi == CASE format_char = "B" -> 255
                [] format_char = "h" -> 32767
                [] format_char = "i" -> 2147483647
    IN  IF lo <= value /\ value <= hi THEN Written(width, value)
        ELSE Raised("struct.error")

\* the 24-bit sample written with to_bytes(4, ...)
to_bytes_4(value) ==
    IF -8388608 <= value /\ value <= 8388607 THEN Written(4, value)
    ELSE Raised("OverflowError")

\* int.to_bytes(3, byteorder=endian, signed=True)
to_bytes_3(value) ==
    IF -8388608 <= value /\ value <= 8388607 THEN Written(3, value)
    ELSE Raised("OverflowError")

\* value = max(-8388608, min(8388607, value))
clamp_24(value) == Max(-8388608, Min(8388607, value))

\* |int(sample_float * (2 ** (bit_depth - 1) - 1))| > 2 ** 31 - 1, decided
\* without leaving 32-bit arithmetic (never so below 32 bits for a sample
\* within +-2.0; bit depths 33..41 are outside the model's descriptors)
scaled_beyond_int32(sample, bit_depth) ==
    /\ bit_depth >= 32
    /\ IF bit_depth >= 42 THEN sample # 0
       ELSE Abs(sample) * Pow2(bit_depth - 32) > SampleDen

\* value = int(sample * max_value) followed by the 16/32-bit struct.pack
pack_scaled(format_char, sample, bit_depth) ==
    IF scaled_beyond_int32(sample, bit_depth) THEN Raised("struct.error")
    ELSE IF bit_depth > 32 THEN pack_int(format_char, 0)
    ELSE pack_int(format_char, ScaleTrunc(sample, max_value(bit_depth)))

\* gen-wav-fixtures.py, the body of the channel loop of
\* generate_sine_wave_files (generate_wav_fixtures.py: generate_fixture_wavs)
sine_sample_write(codec, bit_depth, sample) ==
    CASE codec = "pcm" /\ bit_depth = 8 ->
            pack_int("B", Trunc((sample + SampleDen) * 1275, 10 * SampleDen))
      [] codec = "pcm" /\ bit_depth = 24 ->
            to_bytes_3(clamp_24(ScaleTrunc(sample, max_value(bit_depth))))
      [] codec = "pcm" /\ bit_depth \notin {8, 24} ->
            pack_scaled(IF bit_depth = 16 THEN "h" ELSE "i", sample, bit_depth)
      [] codec = "float" ->
            Written(IF bit_depth = 32 THEN 4 ELSE 8, sample)
      [] codec = "alaw" ->
            pack_int("B", convert_linear_to_alaw(ScaleTrunc(sample, 32767)))
      [] codec = "ulaw" ->
            pack_int("B", convert_linear_to_ulaw(ScaleTrunc(sample, 32767)))
      [] OTHER -> Written(0, 0)

\* gen-wav-fixtures.py, the body of the channel loop of
\* generate_frequency_sweep_files (generate_wav_fixtures.py:
\* generate_sweep_wavs)
sweep_sample_write(codec, bit_depth, sample) ==
    CASE codec = "pcm" /\ bit_depth = 24 ->
            to_bytes_3(clamp_24(ScaleTrunc(sample, max_value(bit_depth))))
      [] codec = "pcm" /\ bit_depth # 24 ->
            pack_scaled(IF bit_depth = 16 THEN "h" ELSE "i", sample, bit_depth)
      [] codec = "float" ->
            Written(IF bit_depth = 32 THEN 4 ELSE 8, sample)
      [] OTHER -> Written(0, 0)

\* generate_fixtures.py, the body of the channel loop of generate_wav
gf_sample_write(codec, bit_depth, sample) ==
    LET sample_width_bytes == bit_depth \div 8
    IN  CASE codec = "pcm" /\ bit_depth = 8 ->
                pack_int("B", Trunc((sample + SampleDen) * 255, 2 * SampleDen))
          [] codec = "pcm" /\ bit_depth # 8 /\ sample_width_bytes = 3 ->
                to_bytes_3(ScaleTrunc(sample, max_value(bit_depth)))
          [] codec = "pcm" /\ bit_depth # 8 /\ sample_width_bytes \in {2, 4} ->
                pack_scaled(IF sample_width_bytes = 2 THEN "h" ELSE "i",
                            sample, bit_depth)
          [] codec = "pcm" /\ bit_depth # 8
                /\ sample_width_bytes \notin {2, 3, 4} ->
                \* {2: 'h', 4: 'i'}[sample_width_bytes]
                Raised("KeyError")
          [] codec = "float" ->
                \* {4: 'f', 8: 'd'}[sample_width_bytes]
                IF sample_width_bytes \in {4, 8}
                THEN Written(sample_width_bytes, sample)
                ELSE Raised("KeyError")
          [] codec = "alaw" ->
                pack_int("B", gf_linear_to_alaw(ScaleTrunc(sample, 32767)))
          [] codec = "ulaw" ->
                pack_int("B", gf_linear_to_ulaw(ScaleTrunc(sample, 32767)))
          [] OTHER -> Written(0, 0)

(***************************************************************************)
(* The locals a generator computes for one catalog entry before it opens   *)
(* the file.                                                               *)
(***************************************************************************)
\* dict.get of a missing key
None == -1

NoPlan == [error |-> "none", filename |-> "", header |-> <<>>]

\* the channel description of generate_fixtures.py: stereo for every count
\* above one
get_channel_description_mono_or_stereo(channels) ==
    IF channels = 1 THEN "mono" ELSE "stereo"

get_channel_description(channels) ==
    IF channels = 1 THEN "mono"
    ELSE IF channels = 2 THEN "stereo"
    ELSE ToString(channels) \o "ch"

get_endian_description(endian) == IF endian = "little" THEN "le" ELSE "be"

\* format_tags with the float tag mistyped as the pcm tag
sine_format_tag_float_as_pcm(codec) ==
    CASE codec = "pcm" -> 1
      [] codec = "float" -> 1
      [] codec = "alaw" -> 6
      [] codec = "ulaw" -> 7
      [] OTHER -> None

\* format_tags.get(codec) of the sine generators
sine_format_tag(codec) ==
    CASE codec = "pcm" -> 1
      [] codec = "float" -> 3
      [] codec = "alaw" -> 6
      [] codec = "ulaw" -> 7
      [] OTHER -> None

\* format_tags.get(codec) of the sweep generators
sweep_format_tag(codec) ==
    CASE codec = "pcm" -> 1
      [] codec = "float" -> 3
      [] OTHER -> None

\* struct.pack accepts the fmt fields: integers, 'H' in 0..65535, 'I' in
\* 0..2**32-1 (every 'I' of the model is below 2**31)
pack_fmt_ok(format_tag, channels, byte_rate, block_align, bit_depth) ==
    /\ format_tag # None
    /\ \A h \in {format_tag, channels, block_align, bit_depth} :
          0 <= h /\ h <= 65535
    /\ 0 <= byte_rate

Planned(config, format_tag, total_frames, block_align, data_size, file_size, filename, header, what) ==
    [error |-> "none", codec |-> config.codec, bit_depth |-> config.bit_depth,
     channels |-> config.channels, endian |-> config.endian,
     endian_char |-> IF config.endian = "little" THEN "<" ELSE ">",
     format_tag |-> format_tag, total_frames |-> total_frames,
     block_align |-> block_align, data_size |-> data_size,
     file_size |-> file_size, filename |-> filename, header |-> header,
     what |-> what]

PlanFailed(exc) == [NoPlan EXCEPT !.error = exc]

\* gen-wav-fixtures.py generate_sine_wave_files, lines 94-141 (the same code
\* is generate_wav_fixtures.py generate_fixture_wavs, lines 93-133)
sine_plan(config) ==
    LET codec == config.codec
        bit_depth == config.bit_depth
        channels == config.channels
        endian == config.endian
        format_tag == sine_format_tag(codec)
        sample_width_bytes == bit_depth \div 8
        total_frames == SAMPLE_RATE * DURATION_SECONDS
        block_align == channels * sample_width_bytes
        byte_rate == SAMPLE_RATE * block_align
        data_size == total_frames * block_align
        endian_char == IF endian = "little" THEN "<" ELSE ">"
        riff_tag == IF endian = "little" THEN "RIFF" ELSE "RIFX"
        fmt_chunk_size == IF format_tag \in {6, 7} THEN 18 ELSE 16
        fmt_chunk == <<ChunkIdSeg("fmt "),
                       ChunkSizeSeg(fmt_chunk_size, endian_char),
                       FmtSeg(format_tag, channels, SAMPLE_RATE, byte_rate,
                              block_align, bit_depth, endian_char,
                              fmt_chunk_size)>>
        fact_chunk == IF format_tag # 1
                      THEN PackChunkHeader("fact", 4, endian_char)
                           \o <<U32Seg(total_frames, endian_char)>>
                      ELSE <<>>
        data_chunk_header == PackChunkHeader("data", data_size, endian_char)
        chunks_size == SegsLen(fmt_chunk) + SegsLen(fact_chunk)
                       + SegsLen(data_chunk_header) + data_size
        file_size == 4 + chunks_size
        filename == "sine_" \o codec \o "_" \o ToString(bit_depth) \o "bit_"
                    \o get_endian_description(endian) \o "_"
                    \o get_channel_description(channels) \o ".wav"
    IN  IF ~pack_fmt_ok(format_tag, channels, byte_rate, block_align, bit_depth)
        THEN PlanFailed("struct.error")
        ELSE Planned(config, format_tag, total_frames, block_align, data_size,
                     file_size, filename,
                     <<TagSeg(riff_tag), RiffSizeSeg(file_size, endian_char),
                       FormSeg("WAVE")>>
                     \o fmt_chunk \o fact_chunk \o data_chunk_header,
                     "sine")

\* gen-wav-fixtures.py lines 199-200: chunks_size, file_size of a sweep
sweep_file_size(fmt_len, header_len, data_size) ==
    4 + (fmt_len + header_len + data_size)

\* generate_wav_fixtures.py lines 185-186: chunks_size, file_size of a sweep
gwf_sweep_file_size(fmt_len, header_len, data_size) ==
    4 + (fmt_len + header_len + data_size + 4)

\* gen-wav-fixtures.py generate_frequency_sweep_files, lines 178-210 (and
\* generate_wav_fixtures.py generate_sweep_wavs, lines 168-194, which
\* differs in the file size alone)
sweep_plan(config, which) ==
    LET codec == config.codec
        bit_depth == config.bit_depth
        channels == config.channels
        endian == config.endian
        format_tag == sweep_format_tag(codec)
        sample_width_bytes == bit_depth \div 8
        total_frames == SAMPLE_RATE * DURATION_SECONDS
        block_align == channels * sample_width_bytes
        byte_rate == SAMPLE_RATE * block_align
        data_size == total_frames * block_align
        endian_char == IF endian = "little" THEN "<" ELSE ">"
        riff_tag == IF endian = "little" THEN "RIFF" ELSE "RIFX"
        fmt_chunk == <<ChunkIdSeg("fmt "), ChunkSizeSeg(16, endian_char),
                       FmtSeg(format_tag, channels, SAMPLE_RATE, byte_rate,
                              block_align, bit_depth, endian_char, 16)>>
        data_chunk_header == PackChunkHeader("data", data_size, endian_char)
        file_size == IF which = GenerateWav
                     THEN gwf_sweep_file_size(SegsLen(fmt_chunk),
                                              SegsLen(data_chunk_header),
                                              data_size)
                     ELSE sweep_file_size(SegsLen(fmt_chunk),
                                          SegsLen(data_chunk_header),
                                          data_size)
        filename == "sweep_" \o codec \o "_" \o ToString(bit_depth) \o "bit_"
                    \o get_endian_description(endian) \o "_"
                    \o get_channel_description(channels) \o ".wav"
    IN  IF ~pack_fmt_ok(format_tag, channels, byte_rate, block_align, bit_depth)
        THEN PlanFailed("struct.error")
        ELSE Planned(config, format_tag, total_frames, block_align, data_size,
                     file_size, filename,
                     <<TagSeg(riff_tag), RiffSizeSeg(file_size, endian_char),
                       FormSeg("WAVE")>>
                     \o fmt_chunk \o data_chunk_header,
                     "sweep")

\* generate_fixtures.py generate_wav, lines 70-117
gf_plan(config) ==
    LET codec == config.codec
        bit_depth == config.bit_depth
        channels == config.channels
        endian == config.endian
        ch_str == IF channels = 1 THEN "mono" ELSE "stereo"
        file_prefix == codec \o "_d" \o ToString(bit_depth) \o "_"
                       \o (IF endian = "little" THEN "le" ELSE "be")
                       \o "_" \o ch_str
        filename == file_prefix \o ".wav"
        format_tag == sine_format_tag(codec)
        sample_width_bytes == bit_depth \div 8
        num_samples == SAMPLE_RATE * DURATION_SECONDS
        endian_char == IF endian = "little" THEN "<" ELSE ">"
        riff_tag == IF endian = "little" THEN "RIFF" ELSE "RIFX"
        block_align == channels * sample_width_bytes
        byte_rate == SAMPLE_RATE * block_align
        fmt_chunk_size == 16
        data_chunk_size == num_samples * block_align
        file_size == 4 + (8 + fmt_chunk_size) + (8 + data_chunk_size)
    IN  IF format_tag = None THEN PlanFailed("ValueError")
        ELSE IF ~pack_fmt_ok(format_tag, channels, byte_rate, block_align,
                             bit_depth)
        THEN PlanFailed("struct.error")
        ELSE Planned(config, format_tag, num_samples, block_align,
                     data_chunk_size, file_size, filename,
                     <<TagSeg(riff_tag), RiffSizeSeg(file_size, endian_char),
                       FormSeg("WAVE"),
                       ChunkIdSeg("fmt "),
                       ChunkSizeSeg(fmt_chunk_size, endian_char),
                       FmtSeg(format_tag, channels, SAMPLE_RATE, byte_rate,
                              block_align, bit_depth, endian_char, 16),
                       ChunkIdSeg("data"),
                       ChunkSizeSeg(data_chunk_size, endian_char)>>,
                     "sine")

(***************************************************************************)
(* gen-wav-fixtures.py generate_exotic_test_files (generate_wav_fixtures.py*)
(* generate_exotic_wavs is the same code).                                 *)
(***************************************************************************)
\* the four arrays handed to create_wav_file, as (filename, frames,
\* num_channels): int16 arrays of 44100, 44100, 44100 x 2 and 80 elements
exotic_arrays ==
    << [filename |-> "exotic_silent_pcm16_mono.wav", frames |-> 44100,
        num_channels |-> 1, what |-> "silent"],
       [filename |-> "exotic_clipped_pcm16_mono.wav", frames |-> 44100,
        num_channels |-> 1, what |-> "clipped"],
       [filename |-> "exotic_alt_clipped_silent_stereo.wav", frames |-> 44100,
        num_channels |-> 2, what |-> "alternating"],
       [filename |-> "exotic_short_pcm16_80samples.wav", frames |-> 80,
        num_channels |-> 1, what |-> "short"] >>

\* create_wav_file(filename, data, sample_rate=44100, sample_width=2,
\* num_channels): the bytes of riff_chunk + fmt_chunk + data_chunk
create_wav_file(a) ==
    LET sample_rate == 44100
        sample_width == 2
        num_channels == a.num_channels
        data_len == a.frames * a.num_channels * 2
        byte_rate == sample_rate * sample_width * num_channels
        block_align == sample_width * num_channels
        fmt_chunk == PackChunkHeader("fmt ", 16, "<")
                     \o <<FmtSeg(1, num_channels, sample_rate, byte_rate,
                                 block_align, sample_width * 8, "<", 16)>>
        data_chunk == PackChunkHeader("data", data_len, "<")
                      \o <<SamplesSeg(data_len \div (sample_width * num_channels),
                                      num_channels, sample_width, "<", a.what)>>
        riff_chunk == PackRiff("RIFF", 36 + data_len, "WAVE", "<")
    IN  riff_chunk \o fmt_chunk \o data_chunk

\* np.zeros(44100, dtype=np.float32) with the slice assignments applied in
\* order (a later one overwrites an earlier one), as runs of equal samples
float32_runs(slices) ==
    LET value_at(i) ==
            LET hit == {k \in DOMAIN slices :
                           slices[k].start <= i /\ i < slices[k].stop}
            IN  IF hit = {} THEN "zero"
                ELSE slices[CHOOSE k \in hit : \A j \in hit : j <= k].value
        cuts == {0, 44100} \cup {slices[k].start : k \in DOMAIN slices}
                           \cup {slices[k].stop : k \in DOMAIN slices}
        starts == cuts \ {44100}
        next(c) == CHOOSE d \in cuts : d > c /\ \A e \in cuts : e > c => d <= e
        nth[k \in 1..Cardinality(starts)] ==
            IF k = 1 THEN 0 ELSE next(nth[k - 1])
    IN  [k \in 1..Cardinality(starts) |->
            SamplesSeg(next(nth[k]) - nth[k], 1, 4, "<", value_at(nth[k]))]

\* the slices written as samples[100:109] and samples[200:209]
create_float32_with_nan_inf_short_slices ==
    float32_runs(<<[start |-> 100, stop |-> 109, value |-> "nan"],
                   [start |-> 200, stop |-> 209, value |-> "inf"]>>)

\* create_float32_with_nan_inf(): samples[100:110] = np.nan,
\* samples[200:210] = np.inf
create_float32_with_nan_inf ==
    float32_runs(<<[start |-> 100, stop |-> 110, value |-> "nan"],
                   [start |-> 200, stop |-> 210, value |-> "inf"]>>)

\* create_float_wav_header(data_bytes) of the 44100 float32 samples, one
\* channel
create_float_wav_header ==
    LET sample_rate == 44100
        num_channels == 1
        data_bytes == create_float32_with_nan_inf
        data_len == SegsLen(data_bytes)
        block_align == 4 * num_channels
        byte_rate == sample_rate * block_align
        fmt_chunk == PackChunkHeader("fmt ", 16, "<")
                     \o <<FmtSeg(3, num_channels, sample_rate, byte_rate,
                                 block_align, 32, "<", 16)>>
        data_chunk == PackChunkHeader("data", data_len, "<") \o data_bytes
        riff_chunk == PackRiff("RIFF", 36 + data_len, "WAVE", "<")
    IN  riff_chunk \o fmt_chunk \o data_chunk

exotic_float_filename == "exotic_float32_nan_inf.wav"

(***************************************************************************)
(* gen_evil_wav_fixtures.py generate_evil_wavs: the 24 write_wav calls, in *)
(* order, as (filename, header, data).                                     *)
(***************************************************************************)
\* a 16-byte fmt body given as a byte literal, little-endian
FmtBytes(format_tag, channels, sample_rate, byte_rate, block_align, bits) ==
    FmtSeg(format_tag, channels, sample_rate, byte_rate, block_align, bits,
           "<", 16)

std_fmt == FmtBytes(1, 1, 44100, 88200, 2, 16)

std_data_chunk == PackChunkHeader("data", 32, "<") \o <<BytesSeg(32, "zero")>>

\* the header with the RIFF size of the bytes that follow (a fmt chunk and
\* std_data_chunk) in place of the one asked for
EvilHeader_true_size(size, fmt) ==
    PackRiff("RIFF", 4 + 8 + fmt.len + 8 + 32, "WAVE", "<")
    \o PackChunkHeader("fmt ", 16, "<") \o <<fmt>>

\* struct.pack('<4sI4s', b'RIFF', size, b'WAVE') + struct.pack('<4sI',
\* b'fmt ', 16) + fmt
EvilHeader(size, fmt) ==
    PackRiff("RIFF", size, "WAVE", "<") \o PackChunkHeader("fmt ", 16, "<")
    \o <<fmt>>

Evil(filename, header, data) ==
    [filename |-> filename, header |-> header, data |-> data]

evil_wavs ==
    << Evil("evil_small_riff.wav", EvilHeader(20, std_fmt), std_data_chunk),
       Evil("evil_big_riff.wav", EvilHeader(99999, std_fmt), std_data_chunk),
       Evil("evil_multi_data_chunks.wav", EvilHeader(100, std_fmt),
            PackChunkHeader("data", 0, "<") \o PackChunkHeader("data", 32, "<")
            \o <<BytesSeg(32, "one")>>),
       Evil("evil_data_before_fmt.wav",
            PackRiff("RIFF", 20 + 8 + 32, "WAVE", "<")
            \o PackChunkHeader("data", 32, "<") \o <<BytesSeg(32, "zero")>>
            \o PackChunkHeader("fmt ", 16, "<") \o <<std_fmt>>,
            <<>>),
       Evil("evil_odd_chunk_size.wav",
            PackRiff("RIFF", 60, "WAVE", "<") \o PackChunkHeader("fmt ", 17, "<")
            \o <<std_fmt, BytesSeg(1, "zero")>>,
            PackChunkHeader("data", 33, "<")
            \o <<BytesSeg(33, "zero"), BytesSeg(1, "zero")>>),
       Evil("evil_truncated.wav", EvilHeader(40, std_fmt),
            PackChunkHeader("data", 32, "<") \o <<BytesSeg(10, "zero")>>),
       Evil("evil_no_fmt_chunk.wav", PackRiff("RIFF", 36, "WAVE", "<"),
            std_data_chunk),
       Evil("evil_no_data_chunk.wav", EvilHeader(28, std_fmt), <<>>),
       Evil("evil_zero_fmt_size.wav",
            PackRiff("RIFF", 40, "WAVE", "<") \o PackChunkHeader("fmt ", 0, "<"),
            std_data_chunk),
       Evil("evil_tiny_fmt.wav",
            PackRiff("RIFF", 30, "WAVE", "<") \o PackChunkHeader("fmt ", 8, "<")
            \o <<FmtSeg(1, 1, 44100, -1, -1, -1, "<", 8)>>,
            std_data_chunk),
       Evil("evil_bad_format_tag.wav",
            EvilHeader(44, FmtBytes(153, 1, 44100, 88200, 2, 16)),
            std_data_chunk),
       Evil("evil_zero_channels.wav",
            EvilHeader(44, FmtBytes(1, 0, 44100, 88200, 2, 16)),
            std_data_chunk),
       Evil("evil_extreme_channels.wav",
            EvilHeader(44, FmtBytes(1, 65535, 44100, 88200, 2, 16)),
            std_data_chunk),
       Evil("evil_zero_sample_rate.wav",
            EvilHeader(44, FmtBytes(1, 1, 0, 88200, 2, 16)),
            std_data_chunk),
       Evil("evil_bad_bit_depth.wav",
            EvilHeader(44, FmtBytes(1, 1, 44100, 88200, 2, 13)),
            std_data_chunk),
       Evil("evil_bad_block_align.wav",
            EvilHeader(44, FmtBytes(1, 2, 44100, 88200, 1, 16)),
            std_data_chunk),
       Evil("evil_mixed_endian.wav",
            PackRiff("RIFX", 44, "WAVE", ">") \o PackChunkHeader("fmt ", 16, "<")
            \o <<std_fmt>>,
            std_data_chunk),
       Evil("evil_bad_chunk_id.wav",
            PackRiff("RIFF", 44, "WAVE", "<") \o PackChunkHeader("fmx ", 16, "<")
            \o <<std_fmt>>,
            std_data_chunk),
       Evil("evil_oversized_chunk.wav", EvilHeader(44, std_fmt),
            PackChunkHeader("data", 99999, "<") \o <<BytesSeg(32, "zero")>>),
       Evil("evil_empty_file.wav", <<>>, <<>>),
       Evil("evil_just_riff.wav", <<TagSeg("RIFF")>>, <<>>),
       Evil("evil_bad_wave_signature.wav",
            PackRiff("RIFF", 44, "WXYZ", "<") \o PackChunkHeader("fmt ", 16, "<")
            \o <<std_fmt>>,
            std_data_chunk),
       Evil("evil_nested_chunks.wav", EvilHeader(60, std_fmt),
            <<ChunkIdSeg("LIST"), ChunkSizeSeg(20, "<"), FormSeg("INFO")>>
            \o PackRiff("RIFF", 8, "WAVE", "<") \o std_data_chunk),
       Evil("evil_float_fmt_int_data.wav",
            EvilHeader(44, FmtBytes(3, 1, 44100, 176400, 4, 32)),
            PackChunkHeader("data", 32, "<")
            \o <<SamplesSeg(8, 1, 2, "<", "int16")>>) >>

(***************************************************************************)
(* The run of a script.                                                    *)
(***************************************************************************)
Scripts == {GenWav, GenerateWav, GenerateFixtures, GenEvil}

Idle == [fn |-> "none", codec |-> "", bit_depth |-> 0, arg |-> 0]

NoRet == [status |-> "none", width |-> 0, value |-> 0]

NoFiles == [n \in {} |-> 0]

\* main() of each script up to its first step, with the shipped catalogs
Start(s, sines, sweeps) ==
    /\ script = s
    /\ sine_configs = sines
    /\ sweep_configs = sweeps
    /\ phase = (IF s = GenEvil THEN "evil" ELSE "sine")
    /\ idx = 1
    /\ step = (IF s = GenEvil THEN "write" ELSE "prepare")
    /\ plan = NoPlan
    /\ cur = ""
    /\ files = NoFiles
    /\ error = "none"
    /\ call = Idle
    /\ ret = NoRet
    /\ frame_index = 0
    /\ channel = 0

Init ==
    \E s \in Scripts :
        Start(s,
              CASE s = GenerateFixtures -> TEST_CONFIGS
                [] s = GenEvil -> <<>>
                [] OTHER -> FIXTURE_CONFIGS,
              IF s \in {GenWav, GenerateWav} THEN SWEEP_CONFIGS ELSE <<>>)

\* an uncaught exception ends the script; a file open in a `with` is closed
Crash(exc) ==
    /\ error' = exc
    /\ phase' = "crashed"
    /\ cur' = ""
    /\ UNCHANGED <<idx, step>>

\* the phase and position after entry idx of the current phase
AfterEntry ==
    CASE phase = "sine" /\ idx < Len(sine_configs) -> <<"sine", idx + 1>>
      [] phase = "sine" /\ idx >= Len(sine_configs) ->
            IF script = GenerateFixtures THEN <<"done", 1>>
            ELSE IF sweep_configs # <<>> THEN <<"sweep", 1>>
            ELSE <<"exotic", 1>>
      [] phase = "sweep" /\ idx < Len(sweep_configs) -> <<"sweep", idx + 1>>
      [] phase = "sweep" /\ idx >= Len(sweep_configs) -> <<"exotic", 1>>
      [] phase = "exotic" /\ idx <= Len(exotic_arrays) -> <<"exotic", idx + 1>>
      [] phase = "exotic" /\ idx > Len(exotic_arrays) -> <<"done", 1>>
      [] phase = "evil" /\ idx < Len(evil_wavs) -> <<"evil", idx + 1>>
      [] phase = "evil" /\ idx >= Len(evil_wavs) -> <<"done", 1>>

\* the locals of one entry are computed; an exception here is raised before
\* the file is opened
Prepared(p) ==
    /\ plan' = p
    /\ IF p.error # "none"
       THEN Crash(p.error)
       ELSE /\ step' = "open"
            /\ UNCHANGED <<phase, idx, cur, error>>
    /\ UNCHANGED <<script, sine_configs, sweep_configs, files, call, ret>>
    /\ UNCHANGED loopVars

\* open(filepath, 'wb') and the writes up to the data chunk header
Opened ==
    /\ files' = (plan.filename :> [segs |-> plan.header, state |-> "open"])
                 @@ files
    /\ cur' = plan.filename
    /\ step' = "frames"
    /\ UNCHANGED <<script, sine_configs, sweep_configs, phase, idx, plan,
                   error, call, ret>>
    /\ UNCHANGED loopVars

\* samples always written little-endian by to_bytes
sample_byte_order_little_24(width, endian, endian_char) ==
    IF width = 1 THEN ""
    ELSE IF width = 3 THEN "<"
    ELSE endian_char

\* the byte order of one sample of `width` bytes: none for struct.pack('B'),
\* to_bytes(3, byteorder=endian) for 3 bytes, and
\* struct.pack(f'{endian_char}{format_char}') for the others
sample_byte_order(width, endian, endian_char) ==
    IF width = 1 THEN ""
    ELSE IF width = 3 THEN (IF endian = "little" THEN "<" ELSE ">")
    ELSE endian_char

\* how many frames the loop has written when a sample that is not zero
\* raises: frame 0 (sin 0 = 0) is always written
MaxPartialFrames == 2

\* The frame loop of one entry.  r0, rp, rn: what the loop body does with a
\* zero sample, the positive and the negative peak of the signal.
FramesWritten(r0, rp, rn) ==
    LET bad == IF r0.status # "ok" THEN r0
               ELSE IF rp.status # "ok" THEN rp
               ELSE IF rn.status # "ok" THEN rn
               ELSE NoRet
        seg(n, w) == SamplesSeg(n, plan.channels, w,
                                sample_byte_order(w, plan.endian,
                                                  plan.endian_char),
                                plan.what)
    IN  /\ IF bad = NoRet
           THEN /\ files' = [files EXCEPT
                        ![cur] = [segs |-> Append(@.segs,
                                          seg(plan.total_frames, r0.width)),
                                  state |-> "complete"]]
                /\ phase' = AfterEntry[1]
                /\ idx' = AfterEntry[2]
                /\ step' = "prepare"
                /\ cur' = ""
                /\ UNCHANGED error
           ELSE /\ \E n \in (IF r0.status # "ok" THEN {0}
                              ELSE 1..MaxPartialFrames) :
                      files' = [files EXCEPT
                        ![cur] = [segs |-> Append(@.segs, seg(n, r0.width)),
                                  state |-> "aborted"]]
                /\ Crash(bad.status)
        /\ plan' = NoPlan
        /\ UNCHANGED <<script, sine_configs, sweep_configs, call, ret>>
        /\ UNCHANGED loopVars

\* generate_sine_wave_files / generate_fixture_wavs: one catalog entry
SinePrepare ==
    /\ script \in {GenWav, GenerateWav}
    /\ phase = "sine" /\ step = "prepare" /\ idx <= Len(sine_configs)
    /\ Prepared(sine_plan(sine_configs[idx]))

SineOpen ==
    /\ script \in {GenWav, GenerateWav}
    /\ phase = "sine" /\ step = "open"
    /\ Opened

SineFrames ==
    /\ script \in {GenWav, GenerateWav}
    /\ phase = "sine" /\ step = "frames"
    /\ FramesWritten(sine_sample_write(plan.codec, plan.bit_depth, 0),
                     sine_sample_write(plan.codec, plan.bit_depth, AMPLITUDE),
                     sine_sample_write(plan.codec, plan.bit_depth, -AMPLITUDE))

\* generate_frequency_sweep_files / generate_sweep_wavs: one catalog entry
SweepPrepare ==
    /\ phase = "sweep" /\ step = "prepare" /\ idx <= Len(sweep_configs)
    /\ Prepared(sweep_plan(sweep_configs[idx], script))

SweepOpen ==
    /\ phase = "sweep" /\ step = "open"
    /\ Opened

SweepFrames ==
    /\ phase = "sweep" /\ step = "frames"
    /\ FramesWritten(sweep_sample_write(plan.codec, plan.bit_depth, 0),
                     sweep_sample_write(plan.codec, plan.bit_depth, AMPLITUDE),
                     sweep_sample_write(plan.codec, plan.bit_depth, -AMPLITUDE))

\* generate_fixtures.py: one generate_wav(config) call of the __main__ loop
GfPrepare ==
    /\ script = GenerateFixtures
    /\ phase = "sine" /\ step = "prepare" /\ idx <= Len(sine_configs)
    /\ Prepared(gf_plan(sine_configs[idx]))

GfOpen ==
    /\ script = GenerateFixtures
    /\ phase = "sine" /\ step = "open"
    /\ Opened

GfFrames ==
    /\ script = GenerateFixtures
    /\ phase = "sine" /\ step = "frames"
    /\ FramesWritten(gf_sample_write(plan.codec, plan.bit_depth, 0),
                     gf_sample_write(plan.codec, plan.bit_depth, AMPLITUDE),
                     gf_sample_write(plan.codec, plan.bit_depth, -AMPLITUDE))

\* a whole file written by one write call inside one `with open`
WriteWhole(filename, segs) ==
    /\ files' = (filename :> [segs |-> segs, state |-> "complete"]) @@ files
    /\ phase' = AfterEntry[1]
    /\ idx' = AfterEntry[2]
    /\ UNCHANGED <<script, sine_configs, sweep_configs, step, plan, cur,
                   error, call, ret>>
    /\ UNCHANGED loopVars

\* generate_exotic_test_files: the four create_wav_file calls
ExoticWrite ==
    /\ phase = "exotic" /\ idx <= Len(exotic_arrays)
    /\ WriteWhole(exotic_arrays[idx].filename,
                  create_wav_file(exotic_arrays[idx]))

\* generate_exotic_test_files: exotic_float32_nan_inf.wav
ExoticFloatWrite ==
    /\ phase = "exotic" /\ idx = Len(exotic_arrays) + 1
    /\ WriteWhole(exotic_float_filename, create_float_wav_header)

\* generate_evil_wavs: one write_wav(header, data, filename) call
EvilWrite ==
    /\ phase = "evil" /\ idx <= Len(evil_wavs)
    /\ WriteWhole(evil_wavs[idx].filename,
                  evil_wavs[idx].header \o evil_wavs[idx].data)

Next ==
    \/ SinePrepare \/ SineOpen \/ SineFrames
    \/ SweepPrepare \/ SweepOpen \/ SweepFrames
    \/ GfPrepare \/ GfOpen \/ GfFrames
    \/ ExoticWrite \/ ExoticFloatWrite
    \/ EvilWrite

Spec == Init /\ [][Next]_vars

(***************************************************************************)
(* The catalog as an input: the first CfgLen entries of the shipped sine   *)
(* catalog with one of them replaced by an arbitrary descriptor, supported *)
(* or not.                                                                 *)
(***************************************************************************)
CfgLen == 3

Codecs == {"pcm", "float", "alaw", "ulaw", "adpcm"}

BitDepths == {8, 12, 16, 24, 32, 64}

Descriptors ==
    {Cfg(c, b, n, e) : c \in Codecs, b \in BitDepths, n \in {1, 2},
                       e \in {"little", "big"}}

InitCfg ==
    \E s \in Scripts, k \in 1..CfgLen, d \in Descriptors :
        LET shipped == IF s = GenerateFixtures THEN TEST_CONFIGS
                       ELSE FIXTURE_CONFIGS
            sines == [i \in 1..CfgLen |-> IF i = k THEN d ELSE shipped[i]]
        IN  Start(s,
                  IF s = GenEvil THEN <<>> ELSE sines,
                  IF s \in {GenWav, GenerateWav} THEN SWEEP_CONFIGS ELSE <<>>)

SpecCfg == InitCfg /\ [][Next]_vars

(***************************************************************************)
(* The G.711 encoders as functions of one 16-bit value.                    *)
(***************************************************************************)
PcmInputs == -32768..32767

NoRun ==
    /\ script = "none"
    /\ sine_configs = <<>>
    /\ sweep_configs = <<>>
    /\ phase = "idle"
    /\ idx = 1
    /\ step = "idle"
    /\ plan = NoPlan
    /\ cur = ""
    /\ files = NoFiles
    /\ error = "none"
    /\ frame_index = 0
    /\ channel = 0

InitG711 ==
    /\ NoRun
    /\ call \in {[Idle EXCEPT !.arg = v] : v \in PcmInputs}
    /\ ret = NoRet

Encode(fn, byte) ==
    /\ call.fn = "none"
    /\ call' = [call EXCEPT !.fn = fn]
    /\ ret' = Written(1, byte)
    /\ UNCHANGED mainVars

\* gen-wav-fixtures.py convert_linear_to_alaw(pcm_value)
AlawEncode ==
    /\ call.codec = ""
    /\ Encode("convert_linear_to_alaw", convert_linear_to_alaw(call.arg))

\* gen-wav-fixtures.py convert_linear_to_ulaw(pcm_value)
UlawEncode ==
    /\ call.codec = ""
    /\ Encode("convert_linear_to_ulaw", convert_linear_to_ulaw(call.arg))

\* generate_fixtures.py linear_to_alaw(pcm_val)
GfAlawEncode ==
    /\ call.codec = ""
    /\ Encode("gf_linear_to_alaw", gf_linear_to_alaw(call.arg))

\* generate_fixtures.py linear_to_ulaw(pcm_val)
GfUlawEncode ==
    /\ call.codec = ""
    /\ Encode("gf_linear_to_ulaw", gf_linear_to_ulaw(call.arg))

NextG711 == AlawEncode \/ UlawEncode \/ GfAlawEncode \/ GfUlawEncode

SpecG711 == InitG711 /\ [][NextG711]_vars

(***************************************************************************)
(* The PCM sample writers as functions of one sample.                      *)
(***************************************************************************)
\* the largest sample magnitude tried, in thousandths
MaxSample == 1500

PcmDepths == {8, 16, 24, 32}

InitSample ==
    /\ NoRun
    /\ call \in {[Idle EXCEPT !.codec = "pcm", !.bit_depth = b, !.arg = x] :
                    b \in PcmDepths, x \in -MaxSample..MaxSample}
    /\ ret = NoRet

WriteSample(fn, r) ==
    /\ call.fn = "none"
    /\ call' = [call EXCEPT !.fn = fn]
    /\ ret' = r
    /\ UNCHANGED mainVars

\* one pass of the channel loop of generate_sine_wave_files
SineSampleWrite ==
    /\ call.codec = "pcm"
    /\ WriteSample("sine_sample_write",
                   sine_sample_write(call.codec, call.bit_depth, call.arg))

\* one pass of the channel loop of generate_frequency_sweep_files, whose
\* catalog holds no 8-bit entry
SweepSampleWrite ==
    /\ call.bit_depth # 8
    /\ WriteSample("sweep_sample_write",
                   sweep_sample_write(call.codec, call.bit_depth, call.arg))

\* one pass of the channel loop of generate_fixtures.py generate_wav
GfSampleWrite ==
    /\ call.codec = "pcm"
    /\ WriteSample("gf_sample_write",
                   gf_sample_write(call.codec, call.bit_depth, call.arg))

NextSample == SineSampleWrite \/ SweepSampleWrite \/ GfSampleWrite

SpecSample == InitSample /\ [][NextSample]_vars

(***************************************************************************)
(* The frame loop of one entry, pass by pass: `for frame_index in          *)
(* range(total_frames)` around `for channel in range(channels)`, each pass *)
(* writing one sample.  The loop is followed for its first LoopFrames      *)
(* frames.                                                                 *)
(***************************************************************************)
LoopFrames == 3

\* the bytes of one file.write of the channel loop
SampleSeg(frame, ch, width, order, what) ==
    Seg("sample", what, frame, order, width,
        [NoFields EXCEPT !.channels = ch, !.bits = width * 8])

\* the loops with the channel loop around the frame loop
next_position_channel_major(frame, ch, channels) ==
    IF frame + 1 < LoopFrames THEN <<frame + 1, ch>> ELSE <<0, ch + 1>>

\* the pass after (frame, ch) of the nested loops
next_position(frame, ch, channels) ==
    IF ch + 1 < channels THEN <<frame, ch + 1>> ELSE <<frame + 1, 0>>

\* the entries a script generates, as (kind, position, plan)
LoopEntries(s) ==
    LET sines == IF s = GenerateFixtures THEN TEST_CONFIGS ELSE FIXTURE_CONFIGS
    IN  {[kind |-> "sine", idx |-> i,
          plan |-> IF s = GenerateFixtures THEN gf_plan(sines[i])
                   ELSE sine_plan(sines[i])] : i \in DOMAIN sines}
        \cup (IF s = GenerateFixtures THEN {}
              ELSE {[kind |-> "sweep", idx |-> i,
                     plan |-> sweep_plan(SWEEP_CONFIGS[i], s)] :
                        i \in DOMAIN SWEEP_CONFIGS})

\* an entry's file has just been opened and its header written; the output
\* directory shows that file alone
InitFrames ==
    \E s \in {GenWav, GenerateWav, GenerateFixtures} :
        \E e \in LoopEntries(s) :
            /\ script = s
            /\ sine_configs = (IF s = GenerateFixtures THEN TEST_CONFIGS
                               ELSE FIXTURE_CONFIGS)
            /\ sweep_configs = (IF s = GenerateFixtures THEN <<>>
                                ELSE SWEEP_CONFIGS)
            /\ phase = e.kind
            /\ idx = e.idx
            /\ step = "frames"
            /\ plan = e.plan
            /\ cur = e.plan.filename
            /\ files = (e.plan.filename :>
                           [segs |-> e.plan.header, state |-> "open"])
            /\ error = "none"
            /\ call = Idle
            /\ ret = NoRet
            /\ frame_index = 0
            /\ channel = 0

\* one pass of the channel loop; r is what the loop body does with the
\* sample of this pass
LoopPass(r) ==
    /\ step = "frames"
    /\ frame_index < Min(plan.total_frames, LoopFrames)
    /\ channel < plan.channels
    /\ IF r.status = "ok"
       THEN /\ files' = [files EXCEPT ![cur].segs =
                   Append(@, SampleSeg(frame_index, channel, r.width,
                                       sample_byte_order(r.width, plan.endian,
                                                         plan.endian_char),
                                       plan.what))]
            /\ frame_index' = next_position(frame_index, channel,
                                            plan.channels)[1]
            /\ channel' = next_position(frame_index, channel,
                                        plan.channels)[2]
            /\ UNCHANGED <<phase, idx, step, plan, cur, error>>
       ELSE /\ files' = [files EXCEPT ![cur].state = "aborted"]
            /\ Crash(r.status)
            /\ plan' = NoPlan
            /\ UNCHANGED loopVars
    /\ UNCHANGED <<script, sine_configs, sweep_configs, call, ret>>

SineLoopPass ==
    /\ script \in {GenWav, GenerateWav} /\ phase = "sine"
    /\ \E sample \in {-AMPLITUDE, 0, AMPLITUDE} :
          LoopPass(sine_sample_write(plan.codec, plan.bit_depth, sample))

SweepLoopPass ==
    /\ phase = "sweep"
    /\ \E sample \in {-AMPLITUDE, 0, AMPLITUDE} :
          LoopPass(sweep_sample_write(plan.codec, plan.bit_depth, sample))

GfLoopPass ==
    /\ script = GenerateFixtures /\ phase = "sine"
    /\ \E sample \in {-AMPLITUDE, 0, AMPLITUDE} :
          LoopPass(gf_sample_write(plan.codec, plan.bit_depth, sample))

\* range(total_frames) is exhausted: the `with` block closes the file
LoopEnd ==
    /\ step = "frames"
    /\ frame_index >= Min(plan.total_frames, LoopFrames)
    /\ files' = [files EXCEPT ![cur].state = "complete"]
    /\ phase' = AfterEntry[1]
    /\ idx' = AfterEntry[2]
    /\ step' = "prepare"
    /\ cur' = ""
    /\ plan' = NoPlan
    /\ frame_index' = 0
    /\ channel' = 0
    /\ UNCHANGED <<script, sine_configs, sweep_configs, error, call, ret>>

NextFrames == SineLoopPass \/ SweepLoopPass \/ GfLoopPass \/ LoopEnd

SpecFrames == InitFrames /\ [][NextFrames]_vars

(***************************************************************************)
(* Reading a written file back: its RIFF header and its chunks, as laid    *)
(* out by the writes.                                                      *)
(***************************************************************************)
\* the files of the well-formed generators that were written to the end
WellFormedFiles ==
    {n \in DOMAIN files : script # GenEvil /\ files[n].state = "complete"}

HasRiffHeader(segs) ==
    /\ Len(segs) >= 3
    /\ segs[1].kind = "tag" /\ segs[2].kind = "riffsize"
    /\ segs[3].kind = "form"

DeclaredRiffSize(segs) == segs[2].value

\* the positions of the chunk headers
ChunkIdxs(segs) ==
    {i \in 1..(Len(segs) - 1) :
        segs[i].kind = "chunkid" /\ segs[i + 1].kind = "chunksize"}

ChunkEnd(segs, i) ==
    LET later == {j \in ChunkIdxs(segs) : j > i}
    IN  IF later = {} THEN Len(segs)
        ELSE (CHOOSE j \in later : \A k \in later : j <= k) - 1

ChunkId(segs, i) == segs[i].tag

ChunkSize(segs, i) == segs[i + 1].value

\* the segments written after a chunk's header, up to the next header
ChunkPayload(segs, i) == SubSeq(segs, i + 2, ChunkEnd(segs, i))

PadOf(size) == size % 2

RECURSIVE SumOver(_, _, _)
SumOver(segs, idxs, i) ==
    IF i > Len(segs) THEN 0
    ELSE (IF i \in idxs THEN 8 + ChunkSize(segs, i) + PadOf(ChunkSize(segs, i))
          ELSE 0) + SumOver(segs, idxs, i + 1)

\* 4 + the sum over the chunks of (8 + size + padding)
RiffSizeByChunks(segs) == 4 + SumOver(segs, ChunkIdxs(segs), 1)

\* the ids of the chunks, in file order
RECURSIVE ChunkIdsFrom(_, _)
ChunkIdsFrom(segs, i) ==
    IF i > Len(segs) THEN <<>>
    ELSE (IF i \in ChunkIdxs(segs) THEN <<ChunkId(segs, i)>> ELSE <<>>)
         \o ChunkIdsFrom(segs, i + 1)

ChunkIds(segs) == ChunkIdsFrom(segs, 1)

\* the position of the first chunk with this id, 0 when there is none
ChunkIndex(segs, id) ==
    LET at == {i \in ChunkIdxs(segs) : ChunkId(segs, i) = id}
    IN  IF at = {} THEN 0 ELSE CHOOSE i \in at : \A j \in at : i <= j

\* the fields of the fmt body of a file that has one
FmtFields(segs) == segs[ChunkIndex(segs, "fmt ") + 2].fields

HasFmtBody(segs) ==
    /\ ChunkIndex(segs, "fmt ") # 0
    /\ ChunkIndex(segs, "fmt ") + 2 <= Len(segs)
    /\ segs[ChunkIndex(segs, "fmt ") + 2].kind = "fmt"

\* the frames held by the data chunk of a well-formed file
RECURSIVE FramesIn(_)
FramesIn(payload) ==
    IF payload = <<>> THEN 0
    ELSE (IF Head(payload).kind = "samples" THEN Head(payload).value ELSE 0)
         + FramesIn(Tail(payload))

DataFrames(segs) ==
    LET d == ChunkIndex(segs, "data")
        payload == ChunkPayload(segs, d)
    IN  IF d # 0 /\ payload # <<>> /\ payload[1].kind = "samples"
        THEN FramesIn(payload) ELSE -1

(***************************************************************************)
(* C1.  In every well-formed fixture of every generator script the RIFF    *)
(* size field equals the number of bytes written to the file minus 8, that *)
(* is 4 + the sum over the written chunks of (8 + size + padding).         *)
(* generate_wav_fixtures.py writes 4 more for its sweep files.             *)
(***************************************************************************)
C1_RiffSizeIsFileLengthMinus8 ==
    \A n \in WellFormedFiles :
        LET segs == files[n].segs
        IN  /\ HasRiffHeader(segs)
            /\ DeclaredRiffSize(segs) = SegsLen(segs) - 8
            /\ DeclaredRiffSize(segs) = RiffSizeByChunks(segs)

(***************************************************************************)
(* C3.  Every well-formed file whose format tag is not 1 holds a fact      *)
(* chunk between its fmt and data chunks, of size 4 and holding the number *)
(* of sample frames; a file with format tag 1 holds no fact chunk.  The    *)
(* sweep and exotic float files and every file of generate_fixtures.py     *)
(* have none.                                                              *)
(***************************************************************************)
C3_FactChunkIffNotPcm ==
    \A n \in WellFormedFiles :
        LET segs == files[n].segs
            fact == ChunkIndex(segs, "fact")
        IN  /\ HasFmtBody(segs)
            /\ IF FmtFields(segs).format_tag # 1
               THEN /\ ChunkIds(segs) = <<"fmt ", "fact", "data">>
                    /\ ChunkSize(segs, fact) = 4
                    /\ Len(ChunkPayload(segs, fact)) = 1
                    /\ ChunkPayload(segs, fact)[1].kind = "u32"
                    /\ ChunkPayload(segs, fact)[1].value = DataFrames(segs)
               ELSE fact = 0

(***************************************************************************)
(* C8.  In every well-formed fixture the fmt chunk has size field 18 and   *)
(* an 18-byte payload exactly when the format tag is 6 or 7, and size      *)
(* field 16 with a 16-byte payload otherwise.  generate_fixtures.py writes *)
(* 16 bytes for A-law and mu-law too.                                      *)
(***************************************************************************)
C8_FmtChunkSize18IffCompanded ==
    \A n \in WellFormedFiles :
        LET segs == files[n].segs
            i == ChunkIndex(segs, "fmt ")
            want == IF FmtFields(segs).format_tag \in {6, 7} THEN 18 ELSE 16
        IN  /\ HasFmtBody(segs)
            /\ ChunkSize(segs, i) = want
            /\ SegsLen(ChunkPayload(segs, i)) = want

(***************************************************************************)
(* C2.  Every file of generate_evil_wavs violates the one invariant its    *)
(* name claims and nothing else: apart from the named defect the declared  *)
(* RIFF size is the file length minus 8, every chunk's declared size is    *)
(* the number of payload bytes supplied for it (a pad byte after an odd    *)
(* size allowed), and the fmt fields agree with each other.  The sets name *)
(* the files whose name claims a defect of each kind.  Most recipes write  *)
(* a RIFF size of 44 into a 76-byte file.                                  *)
(***************************************************************************)
EvilRiffSizeDefect ==
    {"evil_small_riff.wav", "evil_big_riff.wav", "evil_truncated.wav",
     "evil_oversized_chunk.wav", "evil_empty_file.wav", "evil_just_riff.wav"}

EvilChunkSizeDefect == {"evil_truncated.wav", "evil_oversized_chunk.wav"}

EvilFmtDefect ==
    {"evil_zero_channels.wav", "evil_extreme_channels.wav",
     "evil_zero_sample_rate.wav", "evil_bad_bit_depth.wav",
     "evil_bad_block_align.wav", "evil_tiny_fmt.wav"}

FmtFieldsAgree(f) ==
    /\ f.block_align * 8 = f.channels * f.bits
    /\ f.byte_rate = f.sample_rate * f.block_align

C2_EvilFileHasOnlyItsNamedDefect ==
    \A n \in DOMAIN files :
        (script = GenEvil /\ files[n].state = "complete") =>
            LET segs == files[n].segs
            IN  /\ n \notin EvilRiffSizeDefect =>
                      /\ HasRiffHeader(segs)
                      /\ DeclaredRiffSize(segs) = SegsLen(segs) - 8
                /\ n \notin EvilChunkSizeDefect =>
                      \A i \in ChunkIdxs(segs) :
                          SegsLen(ChunkPayload(segs, i))
                            \in {ChunkSize(segs, i),
                                 ChunkSize(segs, i) + PadOf(ChunkSize(segs, i))}
                /\ (n \notin EvilFmtDefect /\ HasFmtBody(segs)) =>
                      FmtFieldsAgree(FmtFields(segs))

(***************************************************************************)
(* C4.  For every v in -32768..32767 each A-law encoder returns the byte   *)
(* of the stated algorithm: sign from v, magnitude |v|; below 32 exponent  *)
(* 0 and mantissa magnitude >> 1; otherwise the exponent is the smallest   *)
(* index of {32, ..., 4096} whose boundary exceeds the magnitude (the last *)
(* index, 7, is taken when none does), shift = exponent + 3 if exponent >  *)
(* 1 else 4, mantissa = (magnitude >> shift) & 0xF; the byte is            *)
(* ((exponent << 4) | mantissa) XOR 0x55, OR 0x80 when v >= 0.             *)
(* linear_to_alaw of generate_fixtures.py is another algorithm.            *)
(***************************************************************************)
StatedBoundaries == <<32, 64, 128, 256, 512, 1024, 2048, 4096>>

StatedAlaw(v) ==
    LET magnitude == IF v < 0 THEN -v ELSE v
        below == {i \in 0..7 : magnitude < StatedBoundaries[i + 1]}
        exponent == IF magnitude < 32 THEN 0
                    ELSE IF below = {} THEN 7
                    ELSE CHOOSE i \in below : \A j \in below : i <= j
        shift == IF exponent > 1 THEN exponent + 3 ELSE 4
        mantissa == IF magnitude < 32 THEN magnitude \div 2
                    ELSE (magnitude \div (2 ^ shift)) % 16
        \* exponent << 4 and mantissa share no bit
        byte == exponent * 16 + mantissa
        flipped == Xor8(byte, 85)
    IN  IF v >= 0 THEN (flipped % 128) + 128 ELSE flipped

C4_AlawEncoderIsStatedAlgorithm ==
    call.fn \in {"convert_linear_to_alaw", "gf_linear_to_alaw"} =>
        ret.value = StatedAlaw(call.arg)

(***************************************************************************)
(* C5.  For every v in -32768..32767 each mu-law encoder returns the byte  *)
(* of the stated algorithm: biased = min(|v|, 32635) + 132, e the largest  *)
(* exponent in 0..7 with biased >= 2^(e+5), mantissa = (biased >> (e+1)) & *)
(* 0xF, the byte ((e << 4) | mantissa) XOR (0xFF if v < 0 else 0x7F).      *)
(* linear_to_ulaw of generate_fixtures.py is another algorithm.            *)
(***************************************************************************)
StatedUlaw(v) ==
    LET magnitude == IF v < 0 THEN -v ELSE v
        biased == (IF magnitude < 32635 THEN magnitude ELSE 32635) + 132
        fits == {e \in 0..7 : biased >= 2 ^ (e + 5)}
        e == CHOOSE x \in fits : \A y \in fits : y <= x
        mantissa == (biased \div (2 ^ (e + 1))) % 16
    IN  Xor8(e * 16 + mantissa, IF v < 0 THEN 255 ELSE 127)

C5_UlawEncoderIsStatedAlgorithm ==
    call.fn \in {"convert_linear_to_ulaw", "gf_linear_to_ulaw"} =>
        ret.value = StatedUlaw(call.arg)

(***************************************************************************)
(* C6.  For every 16-bit v, encoding v with the A-law (the mu-law) encoder *)
(* of gen-wav-fixtures.py and decoding the byte with the ITU-T G.711       *)
(* inverse recovers v within the codec's quantization error: 12.5% of |v|, *)
(* and no less than the 16 units of the finest A-law step.  The encoders   *)
(* are not G.711: 100 comes back as 624, and every mu-law byte comes back  *)
(* with the sign inverted.                                                 *)
(***************************************************************************)
\* G.711 alaw2linear
G711AlawDecode(byte) ==
    LET a == Xor8(byte, 85)
        seg == (a % 128) \div 16
        t == (a % 16) * 16
        mag == IF seg = 0 THEN t + 8
               ELSE IF seg = 1 THEN t + 264
               ELSE (t + 264) * (2 ^ (seg - 1))
    IN  IF a >= 128 THEN mag ELSE -mag

\* G.711 ulaw2linear
G711UlawDecode(byte) ==
    LET u == 255 - byte
        t == (((u % 16) * 8) + 132) * (2 ^ ((u % 128) \div 16))
    IN  IF u >= 128 THEN 132 - t ELSE t - 132

WithinG711Error(decoded, v) ==
    LET err == IF decoded >= v THEN decoded - v ELSE v - decoded
        mag == IF v < 0 THEN -v ELSE v
    IN  8 * err <= mag + 8 * 16

C6_G711RoundTripWithinError ==
    /\ call.fn = "convert_linear_to_alaw" =>
          WithinG711Error(G711AlawDecode(ret.value), call.arg)
    /\ call.fn = "convert_linear_to_ulaw" =>
          WithinG711Error(G711UlawDecode(ret.value), call.arg)

(***************************************************************************)
(* C7.  Every 24-bit PCM sample written by any generator is a 3-byte value *)
(* in -8388608..8388607: a scaled value outside that range is clamped to   *)
(* the nearest bound before it is written, and the write does not fail.    *)
(* generate_fixtures.py does not clamp, and to_bytes raises OverflowError.  *)
(***************************************************************************)
C7_Pcm24ClampedNeverFails ==
    (call.fn # "none" /\ call.codec = "pcm" /\ call.bit_depth = 24) =>
        LET scaled == ScaleTrunc(call.arg, 8388607)
            nearest == IF scaled > 8388607 THEN 8388607
                       ELSE IF scaled < -8388608 THEN -8388608
                       ELSE scaled
        IN  /\ ret.status = "ok"
            /\ ret.width = 3
            /\ ret.value = nearest

(***************************************************************************)
(* C9.  A descriptor with an unsupported (codec, bit depth) pair is        *)
(* rejected before the output file is opened: no file is open for such an  *)
(* entry, no file is left behind by a generator that failed after opening  *)
(* it, and no file is completed whose sample width differs from the bit    *)
(* depth its fmt chunk declares.  generate_fixtures.py raises KeyError in   *)
(* the frame loop; gen-wav-fixtures.py completes the file with 4-byte      *)
(* samples for pcm/12.                                                     *)
(***************************************************************************)
Supported(d) ==
    \/ d.codec = "pcm" /\ d.bit_depth \in {8, 16, 24, 32}
    \/ d.codec = "float" /\ d.bit_depth \in {32, 64}
    \/ d.codec \in {"alaw", "ulaw"} /\ d.bit_depth = 8

SampleBits(segs) ==
    LET d == ChunkIndex(segs, "data")
    IN  ChunkPayload(segs, d)[1].fields.bits

C9_UnsupportedPairRejectedBeforeOpen ==
    /\ (phase = "sine" /\ cur # "") => Supported(sine_configs[idx])
    /\ \A n \in DOMAIN files : files[n].state # "aborted"
    /\ \A n \in WellFormedFiles :
          SampleBits(files[n].segs) = FmtFields(files[n].segs).bits

(***************************************************************************)
(* C10.  A configuration error of one catalog entry fails that fixture     *)
(* alone: when the run has ended, the file of every supported entry of the *)
(* sine and sweep catalogs, those listed after the bad entry included, has *)
(* been generated.  The exception is caught nowhere and ends the run.      *)
(***************************************************************************)
EntryFile(d, kind) ==
    IF kind = "sweep" THEN sweep_plan(d, script).filename
    ELSE IF script = GenerateFixtures THEN gf_plan(d).filename
    ELSE sine_plan(d).filename

Generated(name) == name \in DOMAIN files /\ files[name].state = "complete"

C10_OtherEntriesStillGenerated ==
    (script # GenEvil /\ phase \in {"done", "crashed"}) =>
        /\ \A i \in 1..Len(sine_configs) :
              Supported(sine_configs[i]) =>
                  Generated(EntryFile(sine_configs[i], "sine"))
        /\ \A i \in 1..Len(sweep_configs) :
              Generated(EntryFile(sweep_configs[i], "sweep"))

(***************************************************************************)
(* C11.  In evil_odd_chunk_size.wav every chunk with an odd declared size  *)
(* (fmt with 17, data with 33) is followed by exactly one pad byte that    *)
(* its size field does not count, so that each following chunk header      *)
(* starts at the even offset: previous header offset + 8 + size + 1.  The  *)
(* recipe supplies 17 bytes after the fmt header, and the data header      *)
(* starts at offset 37.                                                    *)
(***************************************************************************)
\* the file offset of segment i
OffsetOf(segs, i) == SegsLen(SubSeq(segs, 1, i - 1))

C11_OddChunkHasOnePadByte ==
    ("evil_odd_chunk_size.wav" \in DOMAIN files
        /\ files["evil_odd_chunk_size.wav"].state = "complete") =>
        LET segs == files["evil_odd_chunk_size.wav"].segs
            fmt == ChunkIndex(segs, "fmt ")
            data == ChunkIndex(segs, "data")
        IN  /\ fmt # 0 /\ ChunkSize(segs, fmt) = 17
            /\ data # 0 /\ ChunkSize(segs, data) = 33
            /\ \A i \in ChunkIdxs(segs) :
                 ChunkSize(segs, i) % 2 = 1 =>
                    /\ SegsLen(ChunkPayload(segs, i)) = ChunkSize(segs, i) + 1
                    /\ \A j \in ChunkIdxs(segs) :
                         j = ChunkEnd(segs, i) + 1 =>
                            /\ OffsetOf(segs, j) % 2 = 0
                            /\ OffsetOf(segs, j)
                                 = OffsetOf(segs, i) + 8 + ChunkSize(segs, i) + 1

(***************************************************************************)
(* C12.  For every entry (codec, bit depth, channels, endian) of the sine  *)
(* and sweep catalogs the fmt fields of its file are: format tag 1, 3, 6,  *)
(* 7 for pcm, float, alaw, ulaw; block align = channels * bit depth / 8;   *)
(* byte rate = sample rate * block align; and the data size field is       *)
(* 44100 * block align.  In particular pcm/16/2/little has format tag 1,   *)
(* block align 4, byte rate 176400 and data size 176400.                   *)
(***************************************************************************)
TagOf(codec) ==
    CASE codec = "pcm" -> 1 [] codec = "float" -> 3
      [] codec = "alaw" -> 6 [] codec = "ulaw" -> 7 [] OTHER -> 0

FmtMatchesEntry(segs, d) ==
    LET f == FmtFields(segs)
    IN  /\ HasFmtBody(segs)
        /\ f.format_tag = TagOf(d.codec)
        /\ f.channels = d.channels
        /\ f.bits = d.bit_depth
        /\ f.sample_rate = 44100
        /\ f.block_align * 8 = d.channels * d.bit_depth
        /\ f.byte_rate = 44100 * f.block_align
        /\ ChunkIndex(segs, "data") # 0
        /\ ChunkSize(segs, ChunkIndex(segs, "data")) = 44100 * f.block_align

Pcm16Stereo == Cfg("pcm", 16, 2, "little")

C12_FmtFieldsFollowEntry ==
    script # GenEvil =>
        /\ \A i \in 1..Len(sine_configs) :
              Generated(EntryFile(sine_configs[i], "sine")) =>
                 FmtMatchesEntry(files[EntryFile(sine_configs[i], "sine")].segs,
                                 sine_configs[i])
        /\ \A i \in 1..Len(sweep_configs) :
              Generated(EntryFile(sweep_configs[i], "sweep")) =>
                 FmtMatchesEntry(files[EntryFile(sweep_configs[i], "sweep")].segs,
                                 sweep_configs[i])
        /\ \A k \in {"sine", "sweep"} :
              Generated(EntryFile(Pcm16Stereo, k)) =>
                 LET segs == files[EntryFile(Pcm16Stereo, k)].segs
                 IN  /\ FmtFields(segs).format_tag = 1
                     /\ FmtFields(segs).block_align = 4
                     /\ FmtFields(segs).byte_rate = 176400
                     /\ ChunkSize(segs, ChunkIndex(segs, "data")) = 176400

\* a run of gen-wav-fixtures.py has written every sine and sweep file, the
\* float and companded ones and pcm/16/2/little of both catalogs included
C12_Witness ==
    /\ script = GenWav /\ phase = "done"
    /\ Generated(EntryFile(Pcm16Stereo, "sine"))
    /\ Generated(EntryFile(Pcm16Stereo, "sweep"))
    /\ Generated(EntryFile(Cfg("float", 64, 2, "little"), "sine"))
    /\ Generated(EntryFile(Cfg("alaw", 8, 1, "little"), "sine"))

(***************************************************************************)
(* C13.  In every sine and sweep fixture the container tag is RIFF when    *)
(* the entry's endianness is little and RIFX when it is big, and every     *)
(* multi-byte field of the file (RIFF size, fmt size and fields, fact size *)
(* and frame count, data size, every multi-byte sample) is written in that *)
(* byte order: no file mixes the two.                                      *)
(***************************************************************************)
OrderOf(endian) == IF endian = "little" THEN "<" ELSE ">"

OneByteOrder(segs, d) ==
    /\ segs # <<>>
    /\ segs[1].kind = "tag"
    /\ segs[1].tag = (IF d.endian = "little" THEN "RIFF" ELSE "RIFX")
    /\ \A k \in DOMAIN segs :
          /\ segs[k].kind \in {"riffsize", "chunksize", "u32", "fmt"} =>
                segs[k].order = OrderOf(d.endian)
          /\ (segs[k].kind = "samples" /\ segs[k].fields.bits > 8) =>
                segs[k].order = OrderOf(d.endian)

C13_OneByteOrderPerFile ==
    script # GenEvil =>
        /\ \A i \in 1..Len(sine_configs) :
              EntryFile(sine_configs[i], "sine") \in DOMAIN files =>
                 OneByteOrder(files[EntryFile(sine_configs[i], "sine")].segs,
                              sine_configs[i])
        /\ \A i \in 1..Len(sweep_configs) :
              EntryFile(sweep_configs[i], "sweep") \in DOMAIN files =>
                 OneByteOrder(files[EntryFile(sweep_configs[i], "sweep")].segs,
                              sweep_configs[i])

\* the big-endian 24-bit and float files and a little-endian 16-bit file of
\* one run are complete
C13_Witness ==
    /\ script = GenWav
    /\ Generated(EntryFile(Cfg("pcm", 24, 2, "big"), "sine"))
    /\ Generated(EntryFile(Cfg("float", 32, 2, "big"), "sine"))
    /\ Generated(EntryFile(Cfg("pcm", 16, 2, "little"), "sweep"))
    /\ \E k \in DOMAIN files[EntryFile(Cfg("pcm", 24, 2, "big"), "sine")].segs :
          LET g == files[EntryFile(Cfg("pcm", 24, 2, "big"), "sine")].segs[k]
          IN  g.kind = "samples" /\ g.fields.bits = 24 /\ g.order = ">"

(***************************************************************************)
(* C14.  exotic_float32_nan_inf.wav has format tag 3, 1 channel and 32     *)
(* bits per sample, and its data chunk holds 44100 float32 frames of which *)
(* frames 100..109 are NaN, frames 200..209 are +Infinity and every other  *)
(* frame is zero.                                                          *)
(***************************************************************************)
\* the sample value of frame i of a payload of one-channel sample runs
RECURSIVE FrameValue(_, _)
FrameValue(payload, i) ==
    IF payload = <<>> THEN "none"
    ELSE IF Head(payload).kind # "samples" THEN "none"
    ELSE IF i < Head(payload).value THEN Head(payload).tag
    ELSE FrameValue(Tail(payload), i - Head(payload).value)

NanInfFile == "exotic_float32_nan_inf.wav"

C14_NanInfFrames ==
    Generated(NanInfFile) =>
        LET segs == files[NanInfFile].segs
            payload == ChunkPayload(segs, ChunkIndex(segs, "data"))
        IN  /\ HasFmtBody(segs)
            /\ FmtFields(segs).format_tag = 3
            /\ FmtFields(segs).channels = 1
            /\ FmtFields(segs).bits = 32
            /\ ChunkIndex(segs, "data") # 0
            /\ DataFrames(segs) = 44100
            /\ SegsLen(payload) = 44100 * 4
            /\ \A k \in DOMAIN payload : payload[k].fields.bits = 32
            /\ \A i \in 0..44099 :
                  FrameValue(payload, i) =
                      (IF i \in 100..109 THEN "nan"
                       ELSE IF i \in 200..209 THEN "inf"
                       ELSE "zero")

C14_Witness ==
    /\ script \in {GenWav, GenerateWav}
    /\ Generated(NanInfFile)
    /\ FrameValue(ChunkPayload(files[NanInfFile].segs,
                               ChunkIndex(files[NanInfFile].segs, "data")),
                  105) = "nan"

(***************************************************************************)
(* C16.  evil_small_riff.wav declares a RIFF size strictly less than its   *)
(* file length minus 8 and evil_big_riff.wav one strictly greater; apart   *)
(* from that field the two files are the same bytes: the same fmt chunk    *)
(* and the same 32-byte data chunk.                                        *)
(***************************************************************************)
SmallRiff == "evil_small_riff.wav"

BigRiff == "evil_big_riff.wav"

C16_SmallAndBigRiffSize ==
    /\ Generated(SmallRiff) =>
          LET segs == files[SmallRiff].segs
          IN  /\ HasRiffHeader(segs)
              /\ DeclaredRiffSize(segs) < SegsLen(segs) - 8
    /\ Generated(BigRiff) =>
          LET segs == files[BigRiff].segs
          IN  /\ HasRiffHeader(segs)
              /\ DeclaredRiffSize(segs) > SegsLen(segs) - 8
    /\ (Generated(SmallRiff) /\ Generated(BigRiff)) =>
          LET a == files[SmallRiff].segs
              b == files[BigRiff].segs
              data == ChunkIndex(a, "data")
          IN  /\ Len(a) = Len(b)
              /\ \A k \in DOMAIN a : k # 2 => a[k] = b[k]
              /\ ChunkIds(a) = <<"fmt ", "data">>
              /\ ChunkSize(a, data) = 32
              /\ SegsLen(ChunkPayload(a, data)) = 32

C16_Witness ==
    /\ script = GenEvil
    /\ Generated(SmallRiff) /\ Generated(BigRiff)
    /\ DeclaredRiffSize(files[SmallRiff].segs) = 20
    /\ DeclaredRiffSize(files[BigRiff].segs) = 99999

(***************************************************************************)
(* C17.  For every sine and sweep catalog entry the sample bytes written   *)
(* after the data header are as many as the data size field declares:      *)
(* every frame written adds exactly channels * bit depth / 8 bytes (a      *)
(* sample occupies bit depth / 8 bytes), so that the payload after frame i *)
(* holds (i + 1) * channels * bit depth / 8 bytes, and the completed       *)
(* payload has even length: no pad byte is owed.                           *)
(***************************************************************************)
PayloadMatchesSize(f, d) ==
    LET segs == f.segs
        data == ChunkIndex(segs, "data")
        payload == ChunkPayload(segs, data)
    IN  /\ data # 0
        /\ \A k \in DOMAIN payload :
              /\ payload[k].kind = "samples"
              /\ payload[k].fields.bits = d.bit_depth
              /\ payload[k].len * 8
                    = payload[k].value * d.channels * d.bit_depth
        /\ f.state = "open" => payload = <<>>
        /\ f.state = "complete" =>
              /\ FramesIn(payload) = 44100
              /\ SegsLen(payload) = ChunkSize(segs, data)
              /\ SegsLen(payload) * 8 = 44100 * d.channels * d.bit_depth
              /\ SegsLen(payload) % 2 = 0

C17_PayloadIsDeclaredDataSize ==
    script # GenEvil =>
        /\ \A i \in 1..Len(sine_configs) :
              EntryFile(sine_configs[i], "sine") \in DOMAIN files =>
                 PayloadMatchesSize(files[EntryFile(sine_configs[i], "sine")],
                                    sine_configs[i])
        /\ \A i \in 1..Len(sweep_configs) :
              EntryFile(sweep_configs[i], "sweep") \in DOMAIN files =>
                 PayloadMatchesSize(files[EntryFile(sweep_configs[i], "sweep")],
                                    sweep_configs[i])

\* a finished run has written 24-bit, 64-bit float and companded payloads
C17_Witness ==
    /\ script = GenWav /\ phase = "done"
    /\ Generated(EntryFile(Cfg("pcm", 24, 1, "little"), "sine"))
    /\ Generated(EntryFile(Cfg("float", 64, 2, "little"), "sine"))
    /\ Generated(EntryFile(Cfg("ulaw", 8, 2, "little"), "sine"))
    /\ Generated(EntryFile(Cfg("pcm", 24, 8, "little"), "sweep"))
    /\ SegsLen(ChunkPayload(
            files[EntryFile(Cfg("pcm", 24, 1, "little"), "sine")].segs,
            ChunkIndex(files[EntryFile(Cfg("pcm", 24, 1, "little"),
                                       "sine")].segs, "data")))
          = 44100 * 3

(***************************************************************************)
(* C18.  The bytes of a well-formed file are written in one fixed order,   *)
(* nothing reordered or repeated: container tag, RIFF size, WAVE, the fmt  *)
(* chunk, the fact chunk if any, the data header, then the frames in       *)
(* ascending index, each visited once, and within a frame the channels in  *)
(* ascending order; the sample of frame i, channel c sits at payload       *)
(* offset (i * channels + c) * bit depth / 8.  Every step only appends.    *)
(***************************************************************************)
RECURSIVE KindsOf(_)
KindsOf(segs) ==
    IF segs = <<>> THEN <<>> ELSE <<Head(segs).kind>> \o KindsOf(Tail(segs))

HeaderInOrder(segs) ==
    LET fact == ChunkIndex(segs, "fact") # 0
        n == IF fact THEN 11 ELSE 8
    IN  /\ Len(segs) >= n
        /\ KindsOf(SubSeq(segs, 1, n)) =
              <<"tag", "riffsize", "form", "chunkid", "chunksize", "fmt">>
              \o (IF fact THEN <<"chunkid", "chunksize", "u32">> ELSE <<>>)
              \o <<"chunkid", "chunksize">>
        /\ segs[3].tag = "WAVE"
        /\ ChunkIds(segs) = <<"fmt ">> \o (IF fact THEN <<"fact">> ELSE <<>>)
                            \o <<"data">>

FramesInOrder(f) ==
    LET segs == f.segs
        payload == ChunkPayload(segs, ChunkIndex(segs, "data"))
        channels == FmtFields(segs).channels
        bits == FmtFields(segs).bits
    IN  /\ \A k \in DOMAIN payload :
              LET i == (k - 1) \div channels
                  c == (k - 1) % channels
              IN  /\ payload[k].kind = "sample"
                  /\ payload[k].value = i
                  /\ payload[k].fields.channels = c
                  /\ SegsLen(SubSeq(payload, 1, k - 1)) * 8
                        = (i * channels + c) * bits
        /\ f.state = "complete" => Len(payload) = LoopFrames * channels

IsPrefix(a, b) == Len(a) <= Len(b) /\ SubSeq(b, 1, Len(a)) = a

C18_BytesInFixedOrder ==
    /\ [](\A n \in DOMAIN files :
             HeaderInOrder(files[n].segs) /\ FramesInOrder(files[n]))
    /\ [][\A n \in DOMAIN files :
             n \in DOMAIN files' /\ IsPrefix(files[n].segs, files'[n].segs)]_vars

\* the 8-channel 24-bit sine file with its fact-less header and all its
\* passes written, and a companded file with a fact chunk
C18_Witness ==
    \E n \in DOMAIN files :
        /\ files[n].state = "complete"
        /\ FmtFields(files[n].segs).channels = 8
        /\ FmtFields(files[n].segs).bits = 24
        /\ Len(ChunkPayload(files[n].segs,
                            ChunkIndex(files[n].segs, "data")))
              = LoopFrames * 8

(***************************************************************************)
(* C19.  PCM quantization rounds to the nearest integer: for every sample  *)
(* s in [-1.0, 1.0] the written 8-bit value is round((s + 1.0) * 127.5)    *)
(* and the written 16-, 24- and 32-bit value is round(s * (2^(bit depth -  *)
(* 1) - 1)): the written value is never more than one half away from the   *)
(* exact scaled value.  The generators truncate with int().                *)
(***************************************************************************)
\* 2 * |value - (s + 1.0) * 127.5| <= 1, with s = arg / SampleDen
NearestOf8(value, arg) ==
    LET d == value * 10 * SampleDen - (arg + SampleDen) * 1275
    IN  2 * (IF d < 0 THEN -d ELSE d) <= 10 * SampleDen

\* 2 * |value - s * m| <= 1, with s = arg / SampleDen, kept within 32 bits
NearestOfScaled(value, arg, m) ==
    LET a == IF arg < 0 THEN -arg ELSE arg
        v == IF arg < 0 THEN -value ELSE value
        d == (v - a * (m \div SampleDen)) * SampleDen - a * (m % SampleDen)
    IN  /\ v - a * (m \div SampleDen) \in -2..2
        /\ 2 * (IF d < 0 THEN -d ELSE d) <= SampleDen

C19_PcmRoundsToNearest ==
    (call.fn # "none" /\ call.codec = "pcm"
        /\ -SampleDen <= call.arg /\ call.arg <= SampleDen) =>
        /\ ret.status = "ok"
        /\ IF call.bit_depth = 8 THEN NearestOf8(ret.value, call.arg)
           ELSE NearestOfScaled(ret.value, call.arg,
                                (2 ^ (call.bit_depth - 2) - 1) * 2 + 1)

(***************************************************************************)
(* C20.  Within one run every fixture writes to its own output path: no    *)
(* two entries of the sine catalog, the sweep catalog, the exotic set or   *)
(* the malformed set map to the same file name, so a finished run leaves   *)
(* one file per entry, and no step overwrites a file written before.       *)
(***************************************************************************)
EntriesOf(s) ==
    IF s = GenEvil THEN Len(evil_wavs)
    ELSE IF s = GenerateFixtures THEN Len(sine_configs)
    ELSE Len(sine_configs) + Len(sweep_configs) + Len(exotic_arrays) + 1

C20_OwnPathPerFixture ==
    /\ [](/\ phase = "done" => Cardinality(DOMAIN files) = EntriesOf(script)
          /\ (script # GenEvil) =>
                /\ \A i, j \in 1..Len(sine_configs) :
                      i # j => EntryFile(sine_configs[i], "sine")
                                  # EntryFile(sine_configs[j], "sine")
                /\ \A i, j \in 1..Len(sweep_configs) :
                      i # j => EntryFile(sweep_configs[i], "sweep")
                                  # EntryFile(sweep_configs[j], "sweep")
                /\ \A i \in 1..Len(sine_configs), j \in 1..Len(sweep_configs) :
                      EntryFile(sine_configs[i], "sine")
                         # EntryFile(sweep_configs[j], "sweep")
          /\ \A i, j \in 1..Len(evil_wavs) :
                i # j => evil_wavs[i].filename # evil_wavs[j].filename)
    /\ [][\A n \in DOMAIN files :
             files[n].state # "open" =>
                 n \in DOMAIN files' /\ files'[n] = files[n]]_vars

C20_Witness ==
    /\ script = GenWav /\ phase = "done"
    /\ Cardinality(DOMAIN files)
          = Len(FIXTURE_CONFIGS) + Len(SWEEP_CONFIGS) + 5
    /\ Generated(EntryFile(Cfg("float", 32, 8, "little"), "sweep"))
    /\ Generated(EntryFile(Cfg("float", 32, 2, "little"), "sweep"))

====
